---- MODULE Spec2Model ----
(***************************************************************************)
(* Static def/use chain analysis of dataflow-sa.cpp: main() collects the   *)
(* tagged-allocation call sites as Defs, walks the value-flow graph from   *)
(* each Def, keeps the visited instrumented loads and stores as Uses in    *)
(* DefUseChains, counts them in NumUses and serializes the chains to JSON. *)
(***************************************************************************)
EXTENDS Integers, Sequences, FiniteSets, TLC

\* Bounds of the explored inputs.
MaxEdges == 3
MaxCallSites == 2

\* The VFG nodes of the explored graphs (opaque node identities).
Nodes == {1, 2, 3}

kTaggedMalloc == "__tagged_malloc"
kTaggedCalloc == "__tagged_calloc"
kTaggedRealloc == "__tagged_realloc"

\* Callee names a call site can resolve to; NoCallee is getCallee() == null.
NoCallee == "<indirect>"
Callees == {kTaggedMalloc, kTaggedCalloc, kTaggedRealloc, "free", NoCallee}

\* The opcode of the instruction behind each node: the explored graphs have
\* a load, a store and an instruction that is neither.
inst ==
  [n \in Nodes |->
     CASE n % 3 = 1 -> "load" [] n % 3 = 2 -> "store" [] OTHER -> "call"]

nullptr == "nullptr"

VARIABLES
  vfg,          \* node -> set of destination nodes of its out edges
  derefMD,      \* nodes whose value carries kFuzzallocInstrumentedDerefMD
  OutJSON,      \* the -out option ("" when not given)
  scanned,      \* call sites iterated so far
  Defs,         \* SmallVector<dataflow::Def>
  pc,           \* position in main()
  defIdx,       \* index in Defs of the Def being processed
  Worklist,     \* FIFOWorkList<const VFGNode *>
  Visited,      \* Set<const VFGNode *>
  toFilter,     \* the nodes of Visited the use loop has not reached yet
  DefUseChains, \* Def -> set of Use
  NumUses,      \* unsigned NumUses
  reported,     \* the number printed by "Collected ... use sites" (-1: none)
  outFile,      \* the output file: whether it was opened, and its JSON array
  exitStatus,   \* "running", "0", "1" or "abort"
  expanded,     \* history: the nodes popped so far in the current traversal
  lastEmplace   \* history: the (Def, Use) of the latest emplace, if any

vars == <<vfg, derefMD, OutJSON, scanned, Defs, pc, defIdx, Worklist,
          Visited, toFilter, DefUseChains, NumUses, reported, outFile,
          exitStatus, expanded, lastEmplace>>

inputs == <<vfg, derefMD, OutJSON>>

----------------------------------------------------------------------------
\* Collaborators

\* Node->getValue(): every node stands for its own instruction.
Val(n) == <<"inst", n>>

\* LoadInst/StoreInst::getPointerOperand(): operand 0 of a load, 1 of a store.
PointerOperand(n) == <<"operand", n, IF inst[n] = "load" THEN 0 ELSE 1>>

\* VariableRecovery's map, one fixed map for all runs: some values have a
\* debug variable, the others have none.
SrcVarsLookup(v) ==
  IF v[1] = "inst"
    THEN IF v[2] % 2 = 1 THEN "var" \o ToString(v[2]) ELSE nullptr
    ELSE IF (v[2] + v[3]) % 2 = 0 THEN "ptr" \o ToString(v[2]) ELSE nullptr

\* What the lambda can return past llvm_unreachable: an operand slot of the
\* instruction, read as if it were a load or a store.
SomeOperand(n) == {<<"operand", n, 0>>, <<"operand", n, 1>>}

isInstrumentedDeref(n) == n \in derefMD

\* Destination nodes of Node->getOutEdges().
OutEdgeDsts(n) == vfg[n]

----------------------------------------------------------------------------
\* dataflow::Def, dataflow::Use and their containers

MkDef(n) == [Node |-> n, Var |-> SrcVarsLookup(Val(n))]

MkUse(n, var) == [Node |-> n, Var |-> var]

\* operator== of Def and of Use.
SameNode(a, b) == a.Node = b.Node

\* Faulty variant of Emplace: Uses are compared field by field, Var included.
EmplaceByRecord(uses, use) == uses \cup {use}

\* Faulty variant of Emplace: the new Use replaces the set.
EmplaceOverwrite(uses, use) == {use}

\* std::unordered_set<Use>::emplace: no insertion when an equal Use is there.
Emplace(uses, use) ==
  IF \E u \in uses : SameNode(u, use) THEN uses ELSE uses \cup {use}

\* The key of chains equal to def, if any.
KeysEqual(chains, def) == {k \in DOMAIN chains : SameNode(k, def)}

\* DefUseChains[Def]: the mapped set, default-constructed when absent.
Subscript(chains, def) ==
  IF KeysEqual(chains, def) # {}
    THEN chains
    ELSE [k \in DOMAIN chains \cup {def} |->
            IF k \in DOMAIN chains THEN chains[k] ELSE {}]

\* DefUseChains[Def].emplace(Use, Var)
ChainEmplace(chains, def, use) ==
  LET c == Subscript(chains, def)
      k == CHOOSE k \in KeysEqual(c, def) : TRUE
  IN  [c EXCEPT ![k] = Emplace(c[k], use)]

----------------------------------------------------------------------------
\* Traversal helpers

\* Faulty variant of NewSuccs: only the edges into uses are followed.
NewSuccsIntoUses(node, visited) ==
  {s \in OutEdgeDsts(node) : s \notin visited /\ isInstrumentedDeref(s)}

\* Faulty variant of NewSuccs: the loop over the out edges stops after the first
\* new destination.
NewSuccsFirst(node, visited) ==
  {s \in OutEdgeDsts(node) :
     s \notin visited /\ \A t \in OutEdgeDsts(node) \ visited : s <= t}

\* Visited.insert(Succ).second over the out edges of node: the destinations
\* that were not visited yet.
NewSuccs(node, visited) == {s \in OutEdgeDsts(node) : s \notin visited}

\* The nodes of S by increasing id: the out edges are an ordered set, of
\* which only the destinations are modelled.
RECURSIVE Ascending(_)
Ascending(S) ==
  IF S = {} THEN <<>>
  ELSE LET m == CHOOSE x \in S : \A y \in S : x <= y
       IN  <<m>> \o Ascending(S \ {m})

\* Faulty variant of ClearVisited: the set is not cleared between Definitions.
KeepVisited(v) == v

\* Visited.clear()
ClearVisited(v) == {}

\* Faulty variant of DefsEmpty: the check for an empty collection is missing.
DefsNeverEmpty(defs) == FALSE

\* Defs.empty()
DefsEmpty(defs) == defs = <<>>

----------------------------------------------------------------------------
Init ==
  /\ vfg \in [Nodes -> SUBSET Nodes]
  /\ Cardinality({e \in Nodes \X Nodes : e[2] \in vfg[e[1]]}) <= MaxEdges
  /\ derefMD \in SUBSET Nodes
  /\ OutJSON \in {"", "out.json"}
  /\ scanned = 0
  /\ Defs = <<>>
  /\ pc = "collect"
  /\ defIdx = 1
  /\ Worklist = <<>>
  /\ Visited = {}
  /\ toFilter = {}
  /\ DefUseChains = <<>>
  /\ NumUses = 0
  /\ reported = -1
  /\ outFile = [opened |-> FALSE, content |-> {}]
  /\ exitStatus = "running"
  /\ expanded = {}
  /\ lastEmplace = {}

\* abort(): a failed assert or llvm_unreachable in a build with assertions,
\* a trap in a build that traps on unreachable code.
Abort ==
  /\ pc' = "abort"
  /\ exitStatus' = "abort"

\* One iteration of the loop over IR->getCallSiteSet(): the call site's
\* callee, its node and what the two asserts test are read here, once.
CollectCallSite ==
  /\ pc = "collect"
  /\ scanned < MaxCallSites
  /\ \E callee \in Callees, node \in Nodes, tagged \in BOOLEAN, alloc \in BOOLEAN :
       /\ scanned' = scanned + 1
       /\ IF callee = NoCallee
            THEN UNCHANGED <<Defs, pc, exitStatus>>
            ELSE IF callee \in {kTaggedMalloc, kTaggedCalloc, kTaggedRealloc}
              THEN IF tagged /\ alloc
                     THEN /\ Defs' = Append(Defs, MkDef(node))
                          /\ UNCHANGED <<pc, exitStatus>>
                     ELSE \* a failed assert aborts, unless the build has
                          \* no assertions (NDEBUG)
                          \/ Abort /\ UNCHANGED Defs
                          \/ /\ Defs' = Append(Defs, MkDef(node))
                             /\ UNCHANGED <<pc, exitStatus>>
              ELSE UNCHANGED <<Defs, pc, exitStatus>>
  /\ UNCHANGED <<inputs, defIdx, Worklist, Visited, toFilter, DefUseChains,
                 NumUses, reported, outFile, expanded, lastEmplace>>

\* The loop over Defs at index i: clear both containers and push the Def's
\* node; past the last Def, report NumUses and go on to the output.
LoopDefs(i) ==
  /\ defIdx' = i
  /\ IF i <= Len(Defs)
       THEN /\ Worklist' = <<Defs[i].Node>>
            /\ Visited' = ClearVisited(Visited)
            /\ expanded' = {}
            /\ pc' = "traverse"
            /\ UNCHANGED <<reported, exitStatus>>
       ELSE /\ reported' = NumUses
            /\ IF OutJSON # ""
                 THEN pc' = "serialize" /\ UNCHANGED exitStatus
                 ELSE pc' = "exit" /\ exitStatus' = "0"
            /\ UNCHANGED <<Worklist, Visited, expanded>>

\* The call-site loop ends: exit(1) when no Def was collected.
EndCollect ==
  /\ pc = "collect"
  /\ scanned' = 0
  /\ IF DefsEmpty(Defs)
       THEN /\ pc' = "exit"
            /\ exitStatus' = "1"
            /\ UNCHANGED <<defIdx, Worklist, Visited, expanded, reported>>
       ELSE LoopDefs(1)
  /\ UNCHANGED <<inputs, Defs, toFilter, DefUseChains, NumUses, outFile,
                 lastEmplace>>

\* One iteration of the while loop: pop a node, visit its out edges.
PopNode ==
  /\ pc = "traverse"
  /\ Worklist # <<>>
  /\ LET node == Head(Worklist)
         new == NewSuccs(node, Visited)
     IN  /\ Worklist' = Tail(Worklist) \o Ascending(new)
         /\ Visited' = Visited \cup new
         /\ expanded' = expanded \cup {node}
  \* the loop ends with the queue empty; the loop over Visited starts
  /\ IF Worklist' = <<>>
       THEN pc' = "filter" /\ toFilter' = Visited'
       ELSE UNCHANGED <<pc, toFilter>>
  /\ UNCHANGED <<inputs, scanned, Defs, defIdx, DefUseChains, NumUses,
                 reported, outFile, exitStatus, lastEmplace>>

\* DefUseChains[Def].emplace(Use, Var); NumUses++
Record(use, var) ==
  /\ DefUseChains' = ChainEmplace(DefUseChains, Defs[defIdx], MkUse(use, var))
  /\ NumUses' = NumUses + 1
  /\ lastEmplace' = {[Def |-> Defs[defIdx], Use |-> MkUse(use, var)]}
  /\ UNCHANGED <<pc, exitStatus>>

\* One iteration of the loop over Visited, in the order of an unordered set.
FilterUse ==
  /\ pc = "filter"
  /\ \E use \in toFilter :
       /\ toFilter' = toFilter \ {use}
       /\ IF ~isInstrumentedDeref(use)
            THEN UNCHANGED <<DefUseChains, NumUses, lastEmplace, pc, exitStatus>>
            ELSE IF inst[use] \in {"load", "store"}
              THEN Record(use, SrcVarsLookup(PointerOperand(use)))
              ELSE \* llvm_unreachable: aborts in a build with assertions;
                   \* without them it is undefined: a trap, or the lambda
                   \* returns some value and the Use is recorded
                   \/ Abort /\ UNCHANGED <<DefUseChains, NumUses, lastEmplace>>
                   \/ \E V \in SomeOperand(use) :
                        Record(use, SrcVarsLookup(V))
  /\ UNCHANGED <<inputs, scanned, Defs, defIdx, Worklist, Visited, reported,
                 outFile, expanded>>

\* The loop over Visited ends: on to the next Def.
EndDef ==
  /\ pc = "filter"
  /\ toFilter = {}
  /\ LoopDefs(defIdx + 1)
  /\ UNCHANGED <<inputs, scanned, Defs, toFilter, DefUseChains, NumUses,
                 outFile, lastEmplace>>

\* toJSON(Def): the name and [file, function, line].
DefToJSON(def) ==
  IF def.Var # nullptr
    THEN <<def.Var, <<"file", "func", "line">>>>
    ELSE <<"%" \o ToString(def.Node), <<nullptr, "block", nullptr>>>>

\* toJSON(Use): the name and [null, function, line].
UseToJSON(use) ==
  IF use.Var # nullptr
    THEN <<use.Var, <<nullptr, "func", "line">>>>
    ELSE <<"%" \o ToString(use.Node), <<nullptr, "func", "line">>>>

\* J: one {Def, JUses} entry per key of the chains; the order of the array
\* is that of the unordered map and is left out.
ToJ(chains) ==
  {<<DefToJSON(k), {UseToJSON(u) : u \in chains[k]}>> : k \in DOMAIN chains}

\* Build J, open the file (exit(1) if that fails), write J, return 0.
Serialize ==
  /\ pc = "serialize"
  /\ \E EC \in BOOLEAN :
       IF EC
         THEN /\ exitStatus' = "1"
              /\ UNCHANGED outFile
         ELSE /\ outFile' = [opened |-> TRUE, content |-> ToJ(DefUseChains)]
              /\ exitStatus' = "0"
  /\ pc' = "exit"
  /\ UNCHANGED <<inputs, scanned, Defs, defIdx, Worklist, Visited, toFilter,
                 DefUseChains, NumUses, reported, expanded, lastEmplace>>

Next ==
  \/ CollectCallSite
  \/ EndCollect
  \/ PopNode
  \/ FilterUse
  \/ EndDef
  \/ Serialize

Spec == Init /\ [][Next]_vars

\* main() runs to its end: no step that can be taken is put off forever.
FairSpec == Spec /\ WF_vars(Next)

----------------------------------------------------------------------------
\* What the claims speak of

\* The destinations of the out edges of the nodes of S.
Succs(S) == UNION {vfg[n] : n \in S}

\* The nodes within i+1 edges of r.
RECURSIVE Within(_, _)
Within(r, i) ==
  IF i = 0 THEN vfg[r] ELSE Within(r, i - 1) \cup Succs(Within(r, i - 1))

\* The nodes reachable from r by a directed path of one or more edges.
Reach(r) == Within(r, Cardinality(Nodes))

\* The nodes reachable from r whose value passes the instrumented-use
\* predicate.
QualifyingUses(r) == {n \in Reach(r) : n \in derefMD}

\* A node that passes the predicate and is neither a load nor a store.
Faulty(n) == n \in derefMD /\ inst[n] \notin {"load", "store"}

\* The nodes of the Uses recorded for the Definition of node r.
UseNodes(r) ==
  {u.Node : u \in UNION {DefUseChains[k] : k \in {x \in DOMAIN DefUseChains : x.Node = r}}}

\* The nodes of the chain store's keys.
KeyNodes == {k.Node : k \in DOMAIN DefUseChains}

\* The Definitions whose traversal and use loop are over.
Processed == {i \in 1..Len(Defs) : i < defIdx}

\* The use-collection phase has ended.
UsesCollected == reported # -1

\* The sum over the keys of K of the size of the key's Use set.
RECURSIVE TotalUses(_)
TotalUses(K) ==
  IF K = {} THEN 0
  ELSE LET k == CHOOSE x \in K : TRUE
       IN  Cardinality(DefUseChains[k]) + TotalUses(K \ {k})

\* C1: every Use recorded for a Definition is a node reachable from the
\* Definition's node by a path of one or more edges, and is never the
\* Definition's own node.
C1_SoundFiltering ==
  \A k \in DOMAIN DefUseChains : \A u \in DefUseChains[k] :
    u.Node \in Reach(k.Node) /\ u.Node # k.Node

\* C2: once a Definition is processed, every node that passes the
\* instrumented-use predicate and is reachable from the Definition's node is
\* in its Use set, whatever the nodes on the path are.
C2_CompleteTraversal ==
  \A i \in Processed : QualifyingUses(Defs[i].Node) \subseteq UseNodes(Defs[i].Node)

\* A processed Definition has a Use that it reaches only through a node that
\* is not a use.
C2_Witness ==
  \E i \in Processed : \E x, b \in Nodes :
    /\ x \in vfg[Defs[i].Node] /\ b \in vfg[x]
    /\ x \notin derefMD /\ b \in derefMD
    /\ b \notin vfg[Defs[i].Node]
    /\ Cardinality({Defs[i].Node, x, b}) = 3
    /\ b \in UseNodes(Defs[i].Node)

\* C3: with no tagged-allocation call site the run ends with status 1 before
\* any traversal starts, and the output file is neither opened nor written.
C3_FatalOnEmpty ==
  Defs = <<>> =>
    /\ pc \in {"collect", "exit", "abort"}
    /\ pc = "exit" => exitStatus = "1"
    /\ outFile = [opened |-> FALSE, content |-> {}]
    /\ reported = -1 /\ NumUses = 0 /\ DefUseChains = <<>>

\* The run has ended on the empty collection with an output path configured.
C3_Witness ==
  Defs = <<>> /\ pc = "exit" /\ exitStatus = "1" /\ OutJSON # ""

\* C4: a visited node that passes the instrumented-use predicate and is
\* neither a load nor a store aborts the run: it is never recorded and the
\* Definition that reaches it is never processed to its end.
C4_FaultIsFatal ==
  /\ \A k \in DOMAIN DefUseChains : \A u \in DefUseChains[k] : ~Faulty(u.Node)
  /\ \A i \in Processed : \A n \in Reach(Defs[i].Node) : ~Faulty(n)

\* C5, as claimed: after the use-collection phase every collected Definition
\* is a key of the chain store, mapped to its qualifying Uses (none of them
\* when it reaches no instrumented dereference).
C5_EveryDefIsKey ==
  UsesCollected =>
    \A i \in 1..Len(Defs) :
      /\ Defs[i].Node \in KeyNodes
      /\ UseNodes(Defs[i].Node) = QualifyingUses(Defs[i].Node)

\* C5, amended: after the use-collection phase the keys of the chain store
\* are the collected Definitions that reach an instrumented dereference, one
\* key per node, each mapped to exactly its qualifying Uses; a Definition
\* that reaches none has no entry, in the store or in the output.
C5_KeysAreDefsWithUses ==
  UsesCollected =>
    /\ KeyNodes = {Defs[i].Node : i \in {j \in 1..Len(Defs) : QualifyingUses(Defs[j].Node) # {}}}
    /\ \A k \in DOMAIN DefUseChains :
         /\ {u.Node : u \in DefUseChains[k]} = QualifyingUses(k.Node)
         /\ \A x \in DOMAIN DefUseChains : x.Node = k.Node => x = k
    /\ outFile.opened => Cardinality(outFile.content) = Cardinality(KeyNodes)

\* The phase has ended with one Definition in the store and another one,
\* which reaches no instrumented dereference, not in it.
C5_Witness ==
  /\ UsesCollected
  /\ outFile.opened
  /\ \E i, j \in 1..Len(Defs) :
       /\ Defs[i].Node \in KeyNodes
       /\ UseNodes(Defs[i].Node) # {}
       /\ Defs[j].Node \notin KeyNodes

\* C6: an emplace of a (Definition, Use) whose nodes are both in the chain
\* store changes no Use set, whatever the Variable of the new record; a Use
\* set holds one Use per node.
C6_InsertStep ==
  (/\ NumUses' = NumUses + 1
   /\ \E e \in lastEmplace' :
        e.Use.Node \in UseNodes(e.Def.Node))
  => /\ DOMAIN DefUseChains' = DOMAIN DefUseChains
     /\ \A k \in DOMAIN DefUseChains :
          Cardinality(DefUseChains'[k]) = Cardinality(DefUseChains[k])

C6_OnePerNode ==
  \A k \in DOMAIN DefUseChains : \A u, w \in DefUseChains[k] :
    u.Node = w.Node => u = w

C6_IdempotentInsert == [][C6_InsertStep]_vars /\ []C6_OnePerNode

\* The latest emplace found its Definition and its Use in the store, the
\* stored Use with another Variable.
C6_Witness ==
  \E e \in lastEmplace : \E k \in DOMAIN DefUseChains :
    /\ k.Node = e.Def.Node
    /\ \E u \in DefUseChains[k] : u.Node = e.Use.Node /\ u.Var # e.Use.Var
    /\ NumUses > TotalUses(DOMAIN DefUseChains)

\* C7: within one traversal no node, the root included, is popped twice.
C7_PoppedOnce == [][PopNode => Head(Worklist) \notin expanded]_vars

\* C8: every traversal ends, and when its queue is empty the visited set is
\* the set of nodes reachable from the root by one or more edges.
C8_QueueEmpty ==
  pc = "filter" => Worklist = <<>> /\ Visited = Reach(Defs[defIdx].Node)

C8_Terminates ==
  /\ (pc = "traverse") ~> (pc = "filter")
  /\ []C8_QueueEmpty

\* A traversal over a cycle through its root has ended.
C8_Witness ==
  /\ pc = "filter"
  /\ Defs[defIdx].Node \in Visited
  /\ Cardinality(Visited) >= 2

\* C9: every traversal starts from the root alone with nothing visited; a
\* step changes no chain-store entry but that of the Definition being
\* processed; and the Uses of a processed Definition are those its node
\* reaches in the graph, whatever Definitions come before or after it.
C9_Fresh ==
  (pc = "traverse" /\ expanded = {}) =>
    Visited = {} /\ Worklist = <<Defs[defIdx].Node>>

C9_Frame ==
  \A k \in DOMAIN DefUseChains :
    (pc # "filter" \/ k.Node # Defs[defIdx].Node) =>
      k \in DOMAIN DefUseChains' /\ DefUseChains'[k] = DefUseChains[k]

C9_SameUses ==
  \A i \in Processed : UseNodes(Defs[i].Node) = QualifyingUses(Defs[i].Node)

C9_Independent == []C9_Fresh /\ [][C9_Frame]_vars /\ []C9_SameUses

\* Two Definitions of different nodes are processed, the second one after a
\* traversal that visited nodes; both have Uses.
C9_Witness ==
  \E i, j \in Processed :
    /\ i < j
    /\ Defs[i].Node # Defs[j].Node
    /\ UseNodes(Defs[i].Node) # {}
    /\ UseNodes(Defs[j].Node) # {}
    /\ UseNodes(Defs[i].Node) # UseNodes(Defs[j].Node)

\* C10: the reported number of use sites is the sum over the keys of the
\* chain store of the size of the key's Use set.
C10_CountIsContent ==
  UsesCollected => reported = TotalUses(DOMAIN DefUseChains)

====
